---- MODULE Spec2Model ----
(***************************************************************************)
(* Patch-parallel group normalization (patchvae/models/normalization.py).  *)
(* N workers each hold a contiguous height shard of one global tensor and  *)
(* run PatchGroupNorm.forward or PatchAdaGroupNorm.forward; the workers    *)
(* meet in dist.all_gather.  Floating point is modelled by exact rational  *)
(* arithmetic; the square root is kept symbolic (a normalized element is   *)
(* the record of its numerator and its radicand).                          *)
(***************************************************************************)
EXTENDS Integers, Sequences, FiniteSets, TLC

\* ------------------------------------------------------------------ bounds
MaxWorkers == 2
MaxLocalH  == 2
MaxCalls   == 2

\* ------------------------------------------------- exact rational numbers
RECURSIVE GCD(_, _)
GCD(a, b) == IF b = 0 THEN a ELSE GCD(b, a % b)

Abs(a) == IF a < 0 THEN -a ELSE a

LCM(a, b) == (a \div GCD(a, b)) * b

\* the fraction n/d (d # 0) in lowest terms with a positive denominator
Rat(n, d) ==
  LET g == GCD(Abs(n), Abs(d))
      s == IF d < 0 THEN -1 ELSE 1
  IN  [n |-> s * (n \div g), d |-> s * (d \div g)]

R(i) == [n |-> i, d |-> 1]

\* the function f on 1..n as a tuple
List(f, n) == SubSeq(f, 1, n)

RECURSIVE Prod(_)
Prod(s) == IF s = <<>> THEN 1 ELSE Head(s) * Prod(Tail(s))

RECURSIVE SeqSum(_)
SeqSum(s) == IF s = <<>> THEN 0 ELSE Head(s) + SeqSum(Tail(s))

\* the sum of s[lo..hi]
RECURSIVE ISum(_, _, _)
ISum(s, lo, hi) ==
  IF lo > hi THEN 0
  ELSE IF lo = hi THEN s[lo]
  ELSE ISum(s, lo, (lo + hi) \div 2) + ISum(s, (lo + hi) \div 2 + 1, hi)

\* the sum of the entries s[j], j in 1..n, that Keep selects
ISumIf(s, n, Keep(_)) ==
  ISum(List([j \in 1..n |-> IF Keep(j) THEN s[j] ELSE 0], n), 1, n)

\* gcd of g and the entries s[lo..hi]
RECURSIVE GCDAll(_, _, _, _)
GCDAll(g, s, lo, hi) ==
  IF lo > hi \/ g = 1 THEN g
  ELSE GCDAll(GCD(g, Abs(s[lo])), s, lo + 1, hi)

\* lcm of the magnitudes of s[1..n]
RECURSIVE LCMAll(_, _)
LCMAll(s, n) == IF n = 0 THEN 1 ELSE LCM(LCMAll(s, n - 1), Abs(s[n]))

\* ------------------------------------------------------------------ tensors
\* A tensor is [shape |-> <<d1,...,dk>>, den |-> d, data |-> its storage], the
\* storage being the tuple of its elements in row-major order (1-based).  A
\* tensor of numbers holds integers over the common denominator den >= 1, in
\* lowest terms: element o is data[o] / den.  A tensor of terms (den = 0)
\* holds records.  Raised is the outcome of an operation that throws.
Raised == [shape |-> <<0>>, den |-> 1, data |-> <<>>]
\* the value of a local that is not assigned yet
None   == [shape |-> <<-1>>, den |-> 1, data |-> <<>>]

Numel(t) == Prod(t.shape)

\* the tensor of the numbers data[o] / den, in lowest terms
Tensor(shape, den, data) ==
  LET n == Prod(shape)
      d == List(data, n)
      g == GCDAll(Abs(den), d, 1, n)
      s == IF den < 0 THEN -g ELSE g
  IN  [shape |-> shape,
       den   |-> den \div s,
       data  |-> List([o \in 1..n |-> d[o] \div s], n)]

\* element o as a value: a fraction, or the term itself
Elem(t, o) == IF t.den = 0 THEN t.data[o] ELSE Rat(t.data[o], t.den)

RECURSIVE Offset(_, _)
Offset(shape, idx) ==
  IF shape = <<>> THEN 0
  ELSE (Head(idx) - 1) * Prod(Tail(shape)) + Offset(Tail(shape), Tail(idx))

\* the index whose storage offset is off
Unravel(shape, off) ==
  List([i \in 1..Len(shape) |->
          ((off \div Prod(SubSeq(shape, i + 1, Len(shape)))) % shape[i]) + 1],
       Len(shape))

\* the integer tensor whose element at index idx is F(idx)
Build(shape, F(_)) ==
  [shape |-> shape, den |-> 1,
   data  |-> List([o \in 1..Prod(shape) |-> F(Unravel(shape, o - 1))],
                  Prod(shape))]

\* the same storage read under another shape (Tensor.view, and the copy of an
\* all_gather input into an output buffer of equal numel)
Reshape(t, shape) == [shape |-> shape, den |-> t.den, data |-> t.data]

\* the stored integer at index idx
At(t, idx) == t.data[Offset(t.shape, idx) + 1]

\* Tensor.view(shape) with at most one -1 entry
View(t, shape) ==
  LET known == Prod([i \in 1..Len(shape) |-> IF shape[i] = -1 THEN 1 ELSE shape[i]])
      full  == [i \in 1..Len(shape) |->
                  IF shape[i] = -1 THEN Numel(t) \div known ELSE shape[i]]
  IN  IF known = 0 \/ Numel(t) % known # 0 \/ Prod(full) # Numel(t)
      THEN Raised
      ELSE Reshape(t, full)

\* torch's is_expandable_to(size, shape): size aligned with the TRAILING
\* dimensions of shape, each entry 1 or equal
Expandable(size, shape) ==
  /\ Len(size) <= Len(shape)
  /\ \A i \in 1..Len(size) :
       size[i] = 1 \/ size[i] = shape[Len(shape) - Len(size) + i]

Pad(s, k) ==
  List([i \in 1..k |-> IF i <= k - Len(s) THEN 1 ELSE s[i - (k - Len(s))]], k)

Max(a, b) == IF a >= b THEN a ELSE b

\* row-major strides of a shape
Strides(shape) ==
  List([i \in 1..Len(shape) |-> Prod(SubSeq(shape, i + 1, Len(shape)))],
       Len(shape))

\* storage offset, in a tensor of shape small (padded to the rank of big, its
\* strides sstr), of the element that offset off of a tensor of shape big
\* (strides bstr) broadcasts from / reduces into
RECURSIVE ProjOffset(_, _, _, _, _, _)
ProjOffset(off, big, bstr, small, sstr, i) ==
  IF i = 0 THEN 0
  ELSE (IF small[i] = 1 THEN 0 ELSE ((off \div bstr[i]) % big[i]) * sstr[i])
       + ProjOffset(off, big, bstr, small, sstr, i - 1)

\* for every storage position of a tensor of shape big, the storage position
\* (1-based) of its source in a tensor of shape small
\* (a small shape that keeps the leading Lead dimensions of big and has 1 in
\* the others tiles big in blocks of consecutive elements; one that keeps a
\* single dimension repeats along it)
Lead(big, ps) ==
  Cardinality({p \in 1..Len(big) : \A i \in 1..p : ps[i] = big[i]})

Blockwise(big, ps) == \A i \in (Lead(big, ps) + 1)..Len(big) : ps[i] = 1

Kept(big, ps) == {i \in 1..Len(big) : ps[i] # 1}

Sources(big, small) ==
  LET k     == Len(big)
      n     == Prod(big)
      bstr  == Strides(big)
      ps    == Pad(small, k)
      sstr  == Strides(ps)
      block == Prod(SubSeq(big, Lead(big, ps) + 1, k))
      axis  == CHOOSE i \in Kept(big, ps) : TRUE
  IN  IF Blockwise(big, ps)
      THEN List([o \in 1..n |-> ((o - 1) \div block) + 1], n)
      ELSE IF Cardinality(Kept(big, ps)) = 1
      THEN List([o \in 1..n |-> (((o - 1) \div bstr[axis]) % big[axis]) + 1], n)
      ELSE List([o \in 1..n |-> ProjOffset(o - 1, big, bstr, ps, sstr, k) + 1], n)

\* Tensor.sum_to_size(*size)
SumToSize(t, size) ==
  IF t = Raised THEN Raised
  ELSE IF ~Expandable(size, t.shape) THEN Raised
  ELSE LET ps    == Pad(size, Len(t.shape))
           block == Prod(SubSeq(t.shape, Lead(t.shape, ps) + 1, Len(t.shape)))
           into  == Sources(t.shape, size)
       IN  IF Blockwise(t.shape, ps)
           THEN Tensor(size, t.den,
                       [o \in 1..Prod(size) |->
                          ISum(t.data, (o - 1) * block + 1, o * block)])
           ELSE Tensor(size, t.den,
                       [o \in 1..Prod(size) |->
                          ISumIf(t.data, Numel(t), LAMBDA j : into[j] = o)])

\* broadcasting of two shapes: aligned at the trailing dimension, entries
\* equal or 1
BCompat(sa, sb) ==
  LET k == Max(Len(sa), Len(sb))
  IN  \A i \in 1..k :
        Pad(sa, k)[i] = Pad(sb, k)[i] \/ Pad(sa, k)[i] = 1 \/ Pad(sb, k)[i] = 1

BShape(sa, sb) ==
  LET k == Max(Len(sa), Len(sb))
  IN  List([i \in 1..k |-> Max(Pad(sa, k)[i], Pad(sb, k)[i])], k)

\* a - b and a + b with broadcasting
Sub(a, b) ==
  IF a = Raised \/ b = Raised THEN Raised
  ELSE IF ~BCompat(a.shape, b.shape) THEN Raised
  ELSE LET shape == BShape(a.shape, b.shape)
           ia    == Sources(shape, a.shape)
           ib    == Sources(shape, b.shape)
           L     == LCM(a.den, b.den)
           ka    == L \div a.den
           kb    == L \div b.den
       IN  Tensor(shape, L,
                  [o \in 1..Prod(shape) |-> a.data[ia[o]] * ka - b.data[ib[o]] * kb])

Add(a, b) ==
  IF a = Raised \/ b = Raised THEN Raised
  ELSE IF ~BCompat(a.shape, b.shape) THEN Raised
  ELSE LET shape == BShape(a.shape, b.shape)
           ia    == Sources(shape, a.shape)
           ib    == Sources(shape, b.shape)
           L     == LCM(a.den, b.den)
           ka    == L \div a.den
           kb    == L \div b.den
       IN  Tensor(shape, L,
                  [o \in 1..Prod(shape) |-> a.data[ia[o]] * ka + b.data[ib[o]] * kb])

\* a * b with broadcasting
Mul(a, b) ==
  IF a = Raised \/ b = Raised THEN Raised
  ELSE IF ~BCompat(a.shape, b.shape) THEN Raised
  ELSE LET shape == BShape(a.shape, b.shape)
           ia    == Sources(shape, a.shape)
           ib    == Sources(shape, b.shape)
       IN  Tensor(shape, a.den * b.den,
                  [o \in 1..Prod(shape) |-> a.data[ia[o]] * b.data[ib[o]]])

\* a / b with broadcasting (b's elements nonzero): the elements
\* (a[o] * b.den) / (a.den * b[o]) over the common denominator
\* a.den * lcm of b's elements
Div(a, b) ==
  IF a = Raised \/ b = Raised THEN Raised
  ELSE IF ~BCompat(a.shape, b.shape) THEN Raised
  ELSE LET shape == BShape(a.shape, b.shape)
           ia    == Sources(shape, a.shape)
           ib    == Sources(shape, b.shape)
           m     == LCMAll(b.data, Numel(b))
       IN  Tensor(shape, a.den * m,
                  [o \in 1..Prod(shape) |->
                     a.data[ia[o]] * b.den * (m \div b.data[ib[o]])])

\* a ** 2
Square(a) ==
  IF a = Raised THEN Raised
  ELSE [shape |-> a.shape, den |-> a.den * a.den,
        data  |-> List([o \in 1..Numel(a) |-> a.data[o] * a.data[o]], Numel(a))]

\* elementwise Op on the values of a and b, with broadcasting: a tensor of terms
Broadcast(Op(_, _), a, b) ==
  IF a = Raised \/ b = Raised THEN Raised
  ELSE IF ~BCompat(a.shape, b.shape) THEN Raised
  ELSE LET shape == BShape(a.shape, b.shape)
           ia    == Sources(shape, a.shape)
           ib    == Sources(shape, b.shape)
       IN  [shape |-> shape, den |-> 0,
            data  |-> List([o \in 1..Prod(shape) |->
                              Op(Elem(a, ia[o]), Elem(b, ib[o]))], Prod(shape))]

\* elementwise Op on the values of a: a tensor of terms
Map(Op(_), a) ==
  IF a = Raised THEN Raised
  ELSE [shape |-> a.shape, den |-> 0,
        data  |-> List([o \in 1..Numel(a) |-> Op(Elem(a, o))], Numel(a))]

\* the common denominator of a list of tensors
RECURSIVE ListDen(_, _)
ListDen(list, n) == IF n = 0 THEN 1 ELSE LCM(ListDen(list, n - 1), list[n].den)

\* torch.stack(list, dim=0)
Stack(list) ==
  IF \E i \in 1..Len(list) : list[i] = Raised \/ list[i].shape # list[1].shape
  THEN Raised
  ELSE LET inner == Numel(list[1])
           L     == ListDen(list, Len(list))
       IN  Tensor(<<Len(list)>> \o list[1].shape, L,
                  [o \in 1..(Len(list) * inner) |->
                     list[((o - 1) \div inner) + 1].data[((o - 1) % inner) + 1]
                       * (L \div list[((o - 1) \div inner) + 1].den)])

\* the list stacked, whatever the entries' shape
TorchTensor_as_stack(list) == Stack(list)

\* torch.tensor(list) for a list of tensors: every entry is converted to a
\* Python scalar, which throws unless the entry has exactly one element
TorchTensor(list) ==
  IF \E i \in 1..Len(list) : list[i] = Raised \/ Numel(list[i]) # 1
  THEN Raised
  ELSE LET L == ListDen(list, Len(list))
       IN  Tensor(<<Len(list)>>, L,
                  [i \in 1..Len(list) |-> list[i].data[1] * (L \div list[i].den)])

\* Tensor.sum(dim=0)
SumDim0(t) ==
  IF t = Raised THEN Raised
  ELSE LET inner == Prod(Tail(t.shape))
       IN  Tensor(Tail(t.shape), t.den,
                  [o \in 1..inner |->
                     ISumIf(t.data, Numel(t), LAMBDA j : (j - 1) % inner = o - 1)])

\* a 0-dim tensor holding the fraction v
Scalar(v) == [shape |-> <<>>, den |-> v.d, data |-> <<v.n>>]

\* a 1-dim tensor of n entries v
Filled(n, v) == [shape |-> <<n>>, den |-> 1, data |-> List([i \in 1..n |-> v], n)]

\* ------------------------------------------------------ symbolic square root
\* torch.sqrt(v) is kept as the term sqrt(v); num / sqrt(rad) is the pair of
\* its numerator and radicand; y * mul + add keeps the four parts.
\* Sqrt_outside_eps: the root of the variance alone, eps = 1e-5 left outside.
Sqrt_outside_eps(v) ==
  [sqrt |-> Rat(v.n * (LCM(v.d, 100000) \div v.d) - (LCM(v.d, 100000) \div 100000),
                LCM(v.d, 100000))]
Sqrt(v)         == [sqrt |-> v]
DivSqrt(num, s) == [num |-> num, rad |-> s.sqrt]
MulBy(y, m)     == [num |-> y.num, rad |-> y.rad, mul |-> m]
AddTo(y, a)     == [num |-> y.num, rad |-> y.rad, mul |-> y.mul, add |-> a]

\* the denominator without eps
eps_omitted == R(0)

\* eps: float = 1e-5
eps == Rat(1, 100000)

\* --------------------------------------------------------- dist.all_gather
\* dist.all_gather(tensor_list, tensor): buffer r of tensor_list receives the
\* storage of rank r's tensor; inputs[r] is what rank r passed.
all_gather(bufshape, inputs) ==
  List([r \in 1..Len(inputs) |->
          IF inputs[r] = Raised \/ Numel(inputs[r]) # Prod(bufshape) THEN Raised
          ELSE Reshape(inputs[r], bufshape)],
       Len(inputs))

\* ------------------------------------------------- PatchGroupNorm.forward
\* the global height taken as world_size times the first rank's height
global_height_equal_shards(height_list) ==
  Mul(Reshape(height_list[1], <<>>), Scalar(R(Len(height_list))))

\* height = torch.tensor(height_list).sum()
global_height(height_list) == SumDim0(TorchTensor(height_list))

channels_per_group(xw, G) == xw.shape[2] \div G

\* the element count of the local shard's group instead of the global group's
nelements_local(xw, G, h) ==
  Scalar(R(channels_per_group(xw, G) * xw.shape[3] * xw.shape[4]))

\* nelements = channels_per_group * height * x.shape[-1]
nelements(xw, G, h) ==
  Mul(Scalar(R(channels_per_group(xw, G) * xw.shape[4])), h)

\* x.view(x.shape[0], self.num_groups, -1, x.shape[-2], x.shape[-1])
GN_view(xw, G) == View(xw, <<xw.shape[1], G, -1, xw.shape[3], xw.shape[4]>>)

\* E[:, :, None, None, None]
Unsqueeze3(t) == IF t = Raised THEN Raised ELSE Reshape(t, t.shape \o <<1, 1, 1>>)

\* every group given the sum over all the groups of its batch element
GN_partial_sum_all_groups(xw, G) ==
  Add(SumToSize(GN_view(xw, G), <<xw.shape[1], 1, 1, 1, 1>>),
      Mul(SumToSize(GN_view(xw, G), <<xw.shape[1], G, 1, 1, 1>>), Scalar(R(0))))

GN_partial_sum(xw, G) ==
  SumToSize(GN_view(xw, G), <<xw.shape[1], G, 1, 1, 1>>)

\* group_sum = torch.stack(partial_sum_list, dim=0).sum(dim=0); E = group_sum / nelements
GN_E(xw, G, partial_sum_list, h) ==
  Div(SumDim0(Stack(partial_sum_list)), nelements(xw, G, h))

\* squared deviations taken from the mean of the local shard
GN_partial_var_sum_local_mean(xw, G, Ew) ==
  SumToSize(Square(Sub(GN_view(xw, G),
                       Unsqueeze3(Div(Reshape(GN_partial_sum(xw, G), <<xw.shape[1], G>>),
                                      nelements_local(xw, G, Ew))))),
            <<xw.shape[1], G, 1, 1, 1>>)

GN_partial_var_sum(xw, G, Ew) ==
  SumToSize(Square(Sub(GN_view(xw, G), Unsqueeze3(Ew))),
            <<xw.shape[1], G, 1, 1, 1>>)

GN_var(xw, G, partial_var_sum_list, h) ==
  Div(SumDim0(Stack(partial_var_sum_list)), nelements(xw, G, h))

\* weight[None, :, None, None]
PerChannel(t) == Reshape(t, <<1, t.shape[1], 1, 1>>)

\* the normalized tensor returned in its grouped layout
GN_output_grouped(xw, G, Ew, varw, wgt, bs) ==
  Broadcast(DivSqrt,
            Sub(GN_view(xw, G), Unsqueeze3(Ew)),
            Unsqueeze3(Map(Sqrt, Add(varw, Scalar(eps)))))

\* x = (x - E[...]) / torch.sqrt(var + self.eps)[...]; x = x.view(...);
\* x = x * self.weight[...] + self.bias[...]
GN_output(xw, G, Ew, varw, wgt, bs) ==
  LET normed == Broadcast(DivSqrt,
                          Sub(GN_view(xw, G), Unsqueeze3(Ew)),
                          Unsqueeze3(Map(Sqrt, Add(varw, Scalar(eps)))))
      flat   == IF normed = Raised THEN Raised
                ELSE View(normed, <<normed.shape[1], -1, normed.shape[4], normed.shape[5]>>)
  IN  Broadcast(AddTo, Broadcast(MulBy, flat, PerChannel(wgt)), PerChannel(bs))

\* ---------------------------------------------- PatchAdaGroupNorm.forward
\* emb = self.linear(emb)[:, :, None, None]; scale, shift = emb.chunk(2, dim=1).
\* The projection is outside the normalization; it is a fixed stand-in here:
\* scale[b, c] = emb + c, shift[b, c] = emb * b.
Ada_scale(xw, e) ==
  Build(<<xw.shape[1], xw.shape[2], 1, 1>>, LAMBDA idx : e + idx[2])

Ada_shift(xw, e) ==
  Build(<<xw.shape[1], xw.shape[2], 1, 1>>, LAMBDA idx : e * idx[1])

\* partial_sum = x.sum_to_size(x.shape[0], self.num_groups)
Ada_partial_sum(xw, G) == SumToSize(xw, <<xw.shape[1], G>>)

\* group_sum = torch.tensor(partial_sum_list).sum(dim=0)
\* E = group_sum / (channels_per_group * height * x.shape[-1])
Ada_E(xw, G, partial_sum_list, h) ==
  Div(SumDim0(TorchTensor(partial_sum_list)), nelements(xw, G, h))

Ada_partial_var(xw, G, Ew) ==
  SumToSize(Square(Sub(xw, Ew)), <<xw.shape[1], G>>)

Ada_var(xw, G, partial_var_list, h) ==
  Div(SumDim0(TorchTensor(partial_var_list)), nelements(xw, G, h))

\* x = (x - E) / torch.sqrt(var + self.eps); x = x * (1 + scale) + shift
Ada_output(xw, Ew, varw, e) ==
  LET normed == Broadcast(DivSqrt, Sub(xw, Ew),
                          Map(Sqrt, Add(varw, Scalar(eps))))
  IN  Broadcast(AddTo,
                Broadcast(MulBy, normed, Add(Scalar(R(1)), Ada_scale(xw, e))),
                Ada_shift(xw, e))

\* ------------------------------------------ the layer on a group of ranks
\* PatchGroupNorm.forward run to completion on every rank of a group whose
\* ranks hold the shards xs: the outputs, by rank
GN_forward(xs, G, wgt, bs) ==
  LET B   == xs[1].shape[1]
      h   == global_height(all_gather(<<1>>,
               [r \in 1..Len(xs) |-> Filled(1, xs[r].shape[3])]))
      psl == all_gather(<<B, G>>, [r \in 1..Len(xs) |-> GN_partial_sum(xs[r], G)])
      Es  == [r \in 1..Len(xs) |-> GN_E(xs[r], G, psl, h)]
      pvl == all_gather(<<B, G>>,
               [r \in 1..Len(xs) |-> GN_partial_var_sum(xs[r], G, Es[r])])
  IN  [r \in 1..Len(xs) |->
         GN_output(xs[r], G, Es[r], GN_var(xs[r], G, pvl, h), wgt, bs)]

\* the mean E and the variance var that PatchGroupNorm.forward, run to
\* completion on every rank of such a group, computes on each rank
GN_moments(xs, G) ==
  LET B   == xs[1].shape[1]
      h   == global_height(all_gather(<<1>>,
               [r \in 1..Len(xs) |-> Filled(1, xs[r].shape[3])]))
      psl == all_gather(<<B, G>>, [r \in 1..Len(xs) |-> GN_partial_sum(xs[r], G)])
      Es  == [r \in 1..Len(xs) |-> GN_E(xs[r], G, psl, h)]
      pvl == all_gather(<<B, G>>,
               [r \in 1..Len(xs) |-> GN_partial_var_sum(xs[r], G, Es[r])])
  IN  List([r \in 1..Len(xs) |->
              [E |-> Es[r], var |-> GN_var(xs[r], G, pvl, h)]],
           Len(xs))

\* ------------------------------------------------- the unsharded reference
\* rows of the global tensor that precede worker w's shard
RowStart(hs, w) == SeqSum(SubSeq(hs, 1, w - 1))

\* the full tensor cut into shards of heights hs
Split(t, hs) ==
  List([w \in 1..Len(hs) |->
          [Build(<<t.shape[1], t.shape[2], hs[w], t.shape[4]>>, LAMBDA idx :
                   At(t, <<idx[1], idx[2], RowStart(hs, w) + idx[3], idx[4]>>))
             EXCEPT !.den = t.den]],
       Len(hs))

\* F.group_norm(x, num_groups, eps) on a full tensor t of integers: the mean
\* and the biased variance of group g of batch element b, over its channels,
\* rows and columns
\* the (batch, group) pair, numbered from 1 in row-major order, that the
\* element at storage position j of t belongs to
GroupOf(t, G, j) ==
  LET plane == t.shape[3] * t.shape[4]
      b     == (j - 1) \div (t.shape[2] * plane)
      c     == ((j - 1) \div plane) % t.shape[2]
  IN  b * G + (c \div (t.shape[2] \div G)) + 1

Groups(t, G) == List([j \in 1..Numel(t) |-> GroupOf(t, G, j)], Numel(t))

GroupCount(t, G) == (t.shape[2] \div G) * t.shape[3] * t.shape[4]

\* the sum of the values s of t's elements, by (batch, group) pair
GroupSums(t, G, s) ==
  LET grp == Groups(t, G)
  IN  List([o \in 1..(t.shape[1] * G) |->
              ISumIf(s, Numel(t), LAMBDA j : grp[j] = o)],
           t.shape[1] * G)

GroupTotals(t, G) == GroupSums(t, G, t.data)

\* mean = total / count
group_norm_mean(t, G) ==
  Tensor(<<t.shape[1], G>>, GroupCount(t, G), GroupTotals(t, G))

\* var = sum (x - total/count)^2 / count = sum (count * x - total)^2 / count^3
group_norm_var(t, G) ==
  LET n   == GroupCount(t, G)
      tot == GroupTotals(t, G)
      grp == Groups(t, G)
      dev == List([j \in 1..Numel(t) |->
                     (n * t.data[j] - tot[grp[j]]) * (n * t.data[j] - tot[grp[j]])],
                  Numel(t))
  IN  Tensor(<<t.shape[1], G>>, n * n * n, GroupSums(t, G, dev))

\* ------------------------------------------------------------------- state
VARIABLES
  layer,        \* "PatchGroupNorm" or "PatchAdaGroupNorm"
  num_groups,   \* self.num_groups
  num_channels, \* constructor argument num_channels (= channels of the input)
  emb,          \* the conditioning embedding (PatchAdaGroupNorm)
  x,            \* x[w]: the shard worker w passes to forward, [B, C, h_w, W]
  unsharded,    \* what the single-worker layer makes of the whole tensor
  twin,         \* a second run of the layer, on other values (or none)
  weight, bias, \* weight[w], bias[w]: affine parameters of worker w's replica
  pc,           \* pc[w]: where worker w stands
  ncall,        \* ncall[w]: forward calls worker w has begun
  posted,       \* posted[w]: the collectives rank w has posted, in order
  height, E, var,      \* locals of worker w's current forward call
  out           \* out[w]: the tensor worker w's last returned call gave back

vars == <<layer, num_groups, num_channels, emb, x, unsharded, twin, weight, bias,
          pc, ncall, posted, height, E, var, out>>

world_size == Len(x)
Ranks      == 1..world_size

\* --------------------------------------------------------------- the inputs
\* element (b, c, r, wi) of the global tensor of Hg rows; r is the global row.
\* "halves": the upper half of the rows holds 1, the lower half 3;
\* "mixed": a value that varies along every axis.
Val(pattern, b, c, r, wi, Hg) ==
  IF pattern = "halves" THEN (IF 2 * r <= Hg THEN 1 ELSE 3)
  ELSE (b + 2 * c + 2 * r * r + wi * c) % 5

HeightLists == UNION {[1..n -> 1..MaxLocalH] : n \in 1..MaxWorkers}

GN  == "PatchGroupNorm"
Ada == "PatchAdaGroupNorm"

\* the layers and inputs tried: batch size B, channels C, groups G, width W.
\* Among them the 4x4 single-channel image and num_channels = 10 with
\* num_groups = 3.
Cases ==
  {[layer |-> GN,  B |-> 1, C |-> 2,  G |-> 1, W |-> 2, pattern |-> "mixed"],
   [layer |-> GN,  B |-> 2, C |-> 2,  G |-> 2, W |-> 2, pattern |-> "mixed"],
   [layer |-> GN,  B |-> 1, C |-> 4,  G |-> 2, W |-> 1, pattern |-> "mixed"],
   [layer |-> GN,  B |-> 1, C |-> 1,  G |-> 1, W |-> 4, pattern |-> "halves"],
   [layer |-> GN,  B |-> 1, C |-> 3,  G |-> 2, W |-> 2, pattern |-> "mixed"],
   [layer |-> GN,  B |-> 1, C |-> 10, G |-> 3, W |-> 1, pattern |-> "mixed"],
   [layer |-> Ada, B |-> 1, C |-> 2,  G |-> 1, W |-> 2, pattern |-> "mixed"],
   [layer |-> Ada, B |-> 2, C |-> 1,  G |-> 1, W |-> 1, pattern |-> "mixed"],
   [layer |-> Ada, B |-> 2, C |-> 2,  G |-> 2, W |-> 2, pattern |-> "mixed"],
   [layer |-> Ada, B |-> 1, C |-> 4,  G |-> 2, W |-> 1, pattern |-> "mixed"],
   [layer |-> Ada, B |-> 1, C |-> 3,  G |-> 2, W |-> 2, pattern |-> "mixed"],
   [layer |-> Ada, B |-> 1, C |-> 10, G |-> 3, W |-> 1, pattern |-> "mixed"]}

Configs ==
  {[layer |-> k.layer, B |-> k.B, C |-> k.C, G |-> k.G, W |-> k.W,
    pattern |-> k.pattern, hs |-> hs] : k \in Cases, hs \in HeightLists}

\* the whole tensor, of which the workers hold the height shards
Whole(c) ==
  Build(<<c.B, c.C, SeqSum(c.hs), c.W>>, LAMBDA idx :
    Val(c.pattern, idx[1], idx[2], idx[3], idx[4], SeqSum(c.hs)))

\* the single-worker layer on the whole tensor: the mean and variance that
\* F.group_norm uses, and the output of PatchGroupNorm.forward on a group of
\* one rank, cut along the workers' shards
Unsharded(c) ==
  IF c.C % c.G # 0 THEN [E |-> Raised, var |-> Raised, out |-> <<>>]
  ELSE [E   |-> group_norm_mean(Whole(c), c.G),
        var |-> group_norm_var(Whole(c), c.G),
        out |-> IF c.layer = GN
                THEN Split(GN_forward(<<Whole(c)>>, c.G,
                                      Filled(c.C, 1), Filled(c.C, 0))[1],
                           c.hs)
                ELSE <<>>]

\* no second run
NoTwin == [g |-> 0, x |-> <<>>, E |-> <<>>, var |-> <<>>]

\* the group of workers before any of them has constructed its layer
InitOn(c) ==
  /\ layer = c.layer
  /\ num_groups = c.G
  /\ num_channels = c.C
  /\ emb = c.B
  /\ x = Split(Whole(c), c.hs)
  /\ unsharded = Unsharded(c)
  /\ weight = [w \in 1..Len(c.hs) |-> None]
  /\ bias = [w \in 1..Len(c.hs) |-> None]
  /\ pc = [w \in 1..Len(c.hs) |-> "new"]
  /\ ncall = [w \in 1..Len(c.hs) |-> 0]
  /\ posted = [w \in 1..Len(c.hs) |-> <<>>]
  /\ height = [w \in 1..Len(c.hs) |-> None]
  /\ E = [w \in 1..Len(c.hs) |-> None]
  /\ var = [w \in 1..Len(c.hs) |-> None]
  /\ out = [w \in 1..Len(c.hs) |-> None]

Init == \E c \in Configs : InitOn(c) /\ twin = NoTwin

\* ----------------------------------------------------------------- actions

\* a constructor that accepts every pair
GroupNorm_init_unchecked(G, C) == TRUE

\* nn.GroupNorm.__init__, reached through super().__init__: raises ValueError
\* unless num_channels is divisible by num_groups
GroupNorm_init_ok(G, C) == C % G = 0

\* PatchGroupNorm.__init__ / PatchAdaGroupNorm.__init__
Construct(w) ==
  /\ pc[w] = "new"
  /\ IF layer = "PatchGroupNorm"
     THEN IF GroupNorm_init_ok(num_groups, num_channels)
          THEN /\ pc' = [pc EXCEPT ![w] = "ready"]
               /\ weight' = [weight EXCEPT ![w] = Filled(num_channels, 1)]
               /\ bias' = [bias EXCEPT ![w] = Filled(num_channels, 0)]
          ELSE /\ pc' = [pc EXCEPT ![w] = "ctor_error"]
               /\ UNCHANGED <<weight, bias>>
     ELSE /\ pc' = [pc EXCEPT ![w] = "ready"]
          /\ UNCHANGED <<weight, bias>>
  /\ UNCHANGED <<layer, num_groups, num_channels, emb, x, unsharded, twin, ncall, posted,
                 height, E, var, out>>

\* the height exchange left out of the posted collectives
Post_without_height(w, call, kind, t) ==
  IF kind = "height" THEN posted[w]
  ELSE Append(posted[w], [call |-> call, kind |-> kind, val |-> t])

Post(w, call, kind, t) ==
  Append(posted[w], [call |-> call, kind |-> kind, val |-> t])

\* an all_gather that returns once any rank has posted its k-th
Arrived_any(k) == \E r \in Ranks : Len(posted[r]) >= k

\* the k-th all_gather returns on a rank once every rank has posted its k-th
Arrived(k) == \A r \in Ranks : Len(posted[r]) >= k

\* the partial sums of a call added to those of the rank's previous call
Contribution_accumulated(r, k) ==
  IF 1 <= k /\ k <= Len(posted[r])
  THEN IF k > 3 /\ posted[r][k].kind = "sum"
       THEN Add(posted[r][k].val, posted[r][k - 3].val)
       ELSE posted[r][k].val
  ELSE Raised

\* what rank r passed to its k-th collective (nothing yet: the call fails)
Contribution(r, k) ==
  IF 1 <= k /\ k <= Len(posted[r]) THEN posted[r][k].val ELSE Raised

\* the gathered list in reverse rank order
Gathered_reversed(w, bufshape) ==
  all_gather(bufshape,
             List([r \in Ranks |-> Contribution(world_size + 1 - r, Len(posted[w]))],
                  world_size))

\* what the all_gather that rank w is blocked in hands back
Gathered(w, bufshape) ==
  all_gather(bufshape,
             List([r \in Ranks |-> Contribution(r, Len(posted[w]))], world_size))

\* forward, up to the all_gather of the local heights
ForwardBegin(w) ==
  /\ pc[w] \in {"ready", "returned"}
  /\ ncall[w] < MaxCalls
  /\ ncall' = [ncall EXCEPT ![w] = @ + 1]
  /\ posted' = [posted EXCEPT ![w] = Post(w, ncall[w] + 1, "height", Filled(1, x[w].shape[3]))]
  /\ pc' = [pc EXCEPT ![w] = "height"]
  /\ height' = [height EXCEPT ![w] = None]
  /\ E' = [E EXCEPT ![w] = None]
  /\ var' = [var EXCEPT ![w] = None]
  /\ UNCHANGED <<layer, num_groups, num_channels, emb, x, unsharded, twin, weight, bias,
                 out>>

partial_sum(w) ==
  IF layer = "PatchGroupNorm" THEN GN_partial_sum(x[w], num_groups)
  ELSE Ada_partial_sum(x[w], num_groups)

\* forward, from the return of the height exchange to the all_gather of the
\* partial sums
ForwardHeight(w) ==
  /\ pc[w] = "height"
  /\ Arrived(Len(posted[w]))
  /\ height' = [height EXCEPT ![w] = global_height(Gathered(w, <<1>>))]
  /\ LET ps == partial_sum(w)
     IN  IF ps = Raised
         THEN /\ pc' = [pc EXCEPT ![w] = "raised"]
              /\ UNCHANGED <<posted, ncall>>
         ELSE /\ pc' = [pc EXCEPT ![w] = "mean"]
              /\ posted' = [posted EXCEPT ![w] = Post(w, ncall[w], "sum", ps)]
              /\ UNCHANGED ncall
  /\ UNCHANGED <<layer, num_groups, num_channels, emb, x, unsharded, twin, weight, bias,
                 E, var, out>>

\* the group sum divided by the element count of the worker's own rows
mean_of_own_height(w, list) ==
  IF layer = "PatchGroupNorm"
  THEN GN_E(x[w], num_groups, list, Scalar(R(x[w].shape[3])))
  ELSE Ada_E(x[w], num_groups, list, Scalar(R(x[w].shape[3])))

mean_of(w, list) ==
  IF layer = "PatchGroupNorm" THEN GN_E(x[w], num_groups, list, height[w])
  ELSE Ada_E(x[w], num_groups, list, height[w])

\* the squared deviations taken from the mean of the worker's own shard
partial_var_of_local_mean(w, Ew) ==
  LET local == Div(Reshape(partial_sum(w), Ew.shape),
                   nelements_local(x[w], num_groups, Ew))
  IN  IF layer = "PatchGroupNorm" THEN GN_partial_var_sum(x[w], num_groups, local)
      ELSE Ada_partial_var(x[w], num_groups, local)

partial_var_of(w, Ew) ==
  IF layer = "PatchGroupNorm" THEN GN_partial_var_sum(x[w], num_groups, Ew)
  ELSE Ada_partial_var(x[w], num_groups, Ew)

\* forward, from the return of the sum exchange to the all_gather of the
\* partial sums of squared deviations
ForwardMean(w) ==
  /\ pc[w] = "mean"
  /\ Arrived(Len(posted[w]))
  /\ LET Ew == mean_of(w, Gathered(w, <<x[w].shape[1], num_groups>>))
         pv == partial_var_of(w, Ew)
     IN  IF Ew = Raised \/ pv = Raised
         THEN /\ pc' = [pc EXCEPT ![w] = "raised"]
              /\ UNCHANGED <<posted, ncall, E>>
         ELSE /\ pc' = [pc EXCEPT ![w] = "var"]
              /\ E' = [E EXCEPT ![w] = Ew]
              /\ posted' = [posted EXCEPT ![w] = Post(w, ncall[w], "var", pv)]
              /\ UNCHANGED ncall
  /\ UNCHANGED <<layer, num_groups, num_channels, emb, x, unsharded, twin, weight, bias,
                 height, var, out>>

\* the unbiased estimator: the divisor is the element count less one
var_of_unbiased(w, list) ==
  IF layer = "PatchGroupNorm"
  THEN Div(SumDim0(Stack(list)),
           Sub(nelements(x[w], num_groups, height[w]), Scalar(R(1))))
  ELSE Div(SumDim0(TorchTensor(list)),
           Sub(nelements(x[w], num_groups, height[w]), Scalar(R(1))))

var_of(w, list) ==
  IF layer = "PatchGroupNorm" THEN GN_var(x[w], num_groups, list, height[w])
  ELSE Ada_var(x[w], num_groups, list, height[w])

\* forward without the view of line 172 and what follows it
output_of_grouped(w, varw) ==
  IF layer = "PatchGroupNorm"
  THEN GN_output_grouped(x[w], num_groups, E[w], varw, weight[w], bias[w])
  ELSE Ada_output(x[w], E[w], varw, emb)

output_of(w, varw) ==
  IF layer = "PatchGroupNorm"
  THEN GN_output(x[w], num_groups, E[w], varw, weight[w], bias[w])
  ELSE Ada_output(x[w], E[w], varw, emb)

\* forward, from the return of the variance exchange to the return statement
ForwardVar(w) ==
  /\ pc[w] = "var"
  /\ Arrived(Len(posted[w]))
  /\ LET varw == var_of(w, Gathered(w, <<x[w].shape[1], num_groups>>))
         y    == output_of(w, varw)
     IN  IF varw = Raised \/ y = Raised
         THEN /\ pc' = [pc EXCEPT ![w] = "raised"]
              /\ UNCHANGED <<var, out>>
         ELSE /\ pc' = [pc EXCEPT ![w] = "returned"]
              /\ var' = [var EXCEPT ![w] = varw]
              /\ out' = [out EXCEPT ![w] = y]
  /\ UNCHANGED <<layer, num_groups, num_channels, emb, x, unsharded, twin, weight, bias,
                 ncall, posted, height, E>>

\* the process of worker w dies (one failure at a time is followed): it posts
\* nothing from here on
Crash(w) ==
  /\ pc[w] \in {"ready", "height", "mean", "var"}
  /\ \A v \in Ranks : pc[v] # "crashed"
  /\ pc' = [pc EXCEPT ![w] = "crashed"]
  /\ UNCHANGED <<layer, num_groups, num_channels, emb, x, unsharded, twin, weight, bias,
                 ncall, posted, height, E, var, out>>

Step(w) ==
  \/ Construct(w)
  \/ ForwardBegin(w)
  \/ ForwardHeight(w)
  \/ ForwardMean(w)
  \/ ForwardVar(w)

Next ==
  \/ \E w \in Ranks : Construct(w)
  \/ \E w \in Ranks : ForwardBegin(w)
  \/ \E w \in Ranks : ForwardHeight(w)
  \/ \E w \in Ranks : ForwardMean(w)
  \/ \E w \in Ranks : ForwardVar(w)
  \/ \E w \in Ranks : Crash(w)

Spec == Init /\ [][Next]_vars

\* the collective group without process failures, every worker scheduled
NextReliable ==
  \/ \E w \in Ranks : Construct(w)
  \/ \E w \in Ranks : ForwardBegin(w)
  \/ \E w \in Ranks : ForwardHeight(w)
  \/ \E w \in Ranks : ForwardMean(w)
  \/ \E w \in Ranks : ForwardVar(w)

\* worker w has a step to take: its constructor, the start of a forward call,
\* or the return of the all_gather it is blocked in
CanStep(w) ==
  \/ pc[w] = "new"
  \/ pc[w] \in {"ready", "returned"} /\ ncall[w] < MaxCalls
  \/ pc[w] \in {"height", "mean", "var"} /\ Arrived(Len(posted[w]))

PCs == {"new", "ctor_error", "ready", "height", "mean", "var", "returned",
        "raised", "crashed"}

\* the process of worker w moves on.  Every step of Step(w) moves pc[w] and no
\* other step does, and Step(w) can be taken exactly when CanStep(w) holds, so
\* these are the steps of Step(w).
Runs(w) ==
  /\ w \in Ranks
  /\ CanStep(w)
  /\ \E q \in PCs \ {pc[w]} : pc' = [pc EXCEPT ![w] = q]

\* every worker is a running process: one that can move on eventually does
Fairness == \A w \in 1..MaxWorkers : WF_pc(Runs(w))

SpecLive == Init /\ [][NextReliable]_vars /\ Fairness

\* ------------------------------------------------- two runs side by side
\* the group, numbered from 1, of the channel that holds storage position j
ChannelGroup(t, G, j) == ((GroupOf(t, G, j) - 1) % G) + 1

\* the tensor t with d added to values of channels of group g only: to the one
\* at storage position j, or to all of them when j = 0
Perturbed(t, G, g, j, d) ==
  [t EXCEPT !.data =
     List([o \in 1..Numel(t) |->
             IF ChannelGroup(t, G, o) = g /\ (j = 0 \/ j = o)
             THEN t.data[o] + d ELSE t.data[o]],
          Numel(t))]

\* PatchGroupNorm on inputs of more than one group
IsoConfigs == {c \in Configs : c.layer = GN /\ c.C % c.G = 0 /\ c.G > 1}

Perturbations(c) ==
  {p \in [g : 1..c.G, j : 0..Numel(Whole(c)), d : {1, 3}] :
     \/ p.j = 0
     \/ p.d = 1 /\ ChannelGroup(Whole(c), c.G, p.j) = p.g}

\* the workers hold the shards of one tensor; the second run is given a
\* tensor that differs from it in values of channels of one group only
InitIso ==
  \E c \in IsoConfigs : \E p \in Perturbations(c) :
    /\ InitOn(c)
    /\ twin = [g   |-> p.g,
               x   |-> Split(Perturbed(Whole(c), c.G, p.g, p.j, p.d), c.hs),
               E   |-> <<>>,
               var |-> <<>>]

\* the second run, made once a call of the first has returned on every
\* worker: forward on every rank, to completion
TwinForward ==
  /\ twin.x # <<>>
  /\ twin.E = <<>>
  /\ \A w \in Ranks : pc[w] = "returned"
  /\ LET m == GN_moments(twin.x, num_groups)
     IN  twin' = [twin EXCEPT !.E   = List([r \in Ranks |-> m[r].E], world_size),
                              !.var = List([r \in Ranks |-> m[r].var], world_size)]
  /\ UNCHANGED <<layer, num_groups, num_channels, emb, x, unsharded, weight, bias,
                 pc, ncall, posted, height, E, var, out>>

NextIso ==
  \/ \E w \in Ranks : Construct(w)
  \/ \E w \in Ranks : ForwardBegin(w)
  \/ \E w \in Ranks : ForwardHeight(w)
  \/ \E w \in Ranks : ForwardMean(w)
  \/ \E w \in Ranks : ForwardVar(w)
  \/ TwinForward

SpecIso == InitIso /\ [][NextIso]_vars

IsGN  == layer = GN
IsAda == layer = Ada
AllReturned == \A w \in Ranks : pc[w] = "returned"
UnequalHeights == \E v, w \in Ranks : x[v].shape[3] # x[w].shape[3]

\* ------------------------------------------------------------------ claims

\* C1: on every worker the per-(batch, group) mean and variance computed by
\* PatchGroupNorm.forward equal the mean and biased variance of the unsharded
\* group normalization of the reassembled tensor, for any split into
\* contiguous height shards (equal or not).
C1_GNEquivalence ==
  IsGN =>
    \A w \in Ranks :
      /\ E[w] # None => E[w] = unsharded.E
      /\ var[w] # None => var[w] = unsharded.var

C1_Witness ==
  /\ IsGN /\ AllReturned /\ UnequalHeights
  /\ num_groups = 2 /\ num_channels = 4
  /\ \E o \in 1..Numel(var[1]) : var[1].data[o] # 0

\* C2: PatchAdaGroupNorm.forward, for every batch size and every group count
\* that divides the channel count, reduces its shard to a [batch, G] partial
\* sum and ends with the exact global per-(batch, group) mean and variance of
\* the unsharded AdaGroupNorm.forward.
C2_AdaExact ==
  (IsAda /\ x[1].shape[2] % num_groups = 0) =>
    \A w \in Ranks :
      /\ pc[w] # "raised"
      /\ E[w] # None =>
           Reshape(E[w], <<x[w].shape[1], num_groups>>)
             = unsharded.E
      /\ var[w] # None =>
           Reshape(var[w], <<x[w].shape[1], num_groups>>)
             = unsharded.var

\* C3: cutting the same global tensor into a different number of contiguous
\* height shards gives the same final output for every element: the output of
\* every partition equals, element by element, the output of the partition
\* into a single shard, so the outputs of any two partitions agree.
Heights == List([r \in Ranks |-> x[r].shape[3]], world_size)

C3_PartitionInvariant ==
  (IsGN /\ \E w \in Ranks : pc[w] = "returned") =>
    \A w \in Ranks : pc[w] = "returned" => out[w] = unsharded.out[w]

C3_Witness ==
  /\ IsGN /\ AllReturned
  /\ world_size = 2 /\ Heights = <<1, 2>>
  /\ num_groups = 2 /\ num_channels = 4
  /\ out[1].data[1].num # R(0)

\* C4: two workers, one group, a 4x4 single-channel image, rows [0,2) all 1.0
\* on worker A and rows [2,4) all 3.0 on worker B: both workers get mean 2.0
\* and variance 1.0, and every output element is (value - 2.0)/sqrt(1.0 + eps).
IsScenario ==
  /\ world_size = 2 /\ num_groups = 1
  /\ x[1] = [shape |-> <<1, 1, 2, 4>>, den |-> 1, data |-> [i \in 1..8 |-> 1]]
  /\ x[2] = [shape |-> <<1, 1, 2, 4>>, den |-> 1, data |-> [i \in 1..8 |-> 3]]

C4_Scenario ==
  (IsGN /\ IsScenario) =>
    \A w \in Ranks :
      /\ E[w] # None => E[w] = [shape |-> <<1, 1>>, den |-> 1, data |-> <<2>>]
      /\ var[w] # None => var[w] = [shape |-> <<1, 1>>, den |-> 1, data |-> <<1>>]
      /\ pc[w] = "returned" =>
           /\ out[w].shape = x[w].shape
           /\ \A i \in 1..8 :
                out[w].data[i] = [num |-> R(x[w].data[i] - 2),
                                  rad |-> Rat(100001, 100000),
                                  mul |-> R(1), add |-> R(0)]

C4_Witness == IsGN /\ IsScenario /\ AllReturned

\* C5: constructing PatchGroupNorm with a channel count that num_groups does
\* not divide (num_channels = 10, num_groups = 3) fails in the constructor:
\* the worker never begins a forward call and never posts a collective.
C5_CtorRejects ==
  (IsGN /\ num_channels % num_groups # 0) =>
    \A w \in Ranks :
      /\ pc[w] \in {"new", "ctor_error"}
      /\ ncall[w] = 0
      /\ posted[w] = <<>>

C5_Witness ==
  /\ IsGN /\ num_channels = 10 /\ num_groups = 3
  /\ \A w \in Ranks : pc[w] = "ctor_error"

\* C6: with PatchAdaGroupNorm, no forward call on an input whose channel count
\* num_groups does not divide returns a normalized output.
C6_AdaIndivisibleNeverReturns ==
  (IsAda /\ x[1].shape[2] % num_groups # 0) =>
    \A w \in Ranks : pc[w] # "returned" /\ out[w] = None

C6_Witness ==
  /\ IsAda /\ x[1].shape[2] % num_groups # 0
  /\ \E w \in Ranks : pc[w] = "raised" /\ Len(posted[w]) = 2

\* C7: when every worker calls forward, the workers post the same sequence of
\* collectives, no process fails and every worker keeps running, a worker that
\* is blocked in an exchange of a forward call eventually returns from that
\* call (unless a rank has stopped posting: the lock-step is then broken).
Blocked == {"height", "mean", "var"}

LockStepBroken(w) ==
  \E r \in Ranks : pc[r] = "raised" /\ Len(posted[r]) < Len(posted[w])

C7_EveryCallReturns ==
  \A w \in 1..MaxWorkers :
    (w \in Ranks /\ pc[w] \in Blocked)
      ~> (w \in Ranks /\ (pc[w] = "returned" \/ LockStepBroken(w)))

\* C7 for PatchGroupNorm alone: every blocked worker eventually returns.
C7_GNEveryCallReturns ==
  \A w \in 1..MaxWorkers :
    (IsGN /\ w \in Ranks /\ pc[w] \in Blocked)
      ~> (w \in Ranks /\ pc[w] = "returned")

\* C7 for both layers: every blocked worker eventually leaves its call, by
\* returning or by raising, unless a rank that raised has stopped posting.
C7_EveryCallEnds ==
  \A w \in 1..MaxWorkers :
    (w \in Ranks /\ pc[w] \in Blocked)
      ~> (w \in Ranks /\ (pc[w] \in {"returned", "raised"} \/ LockStepBroken(w)))

\* a worker is left blocked for ever by a rank that raised before posting
C7_LeftBlocked ==
  /\ IsAda /\ world_size = 2
  /\ pc[1] = "mean" /\ pc[2] = "raised"
  /\ Len(posted[2]) < Len(posted[1])

\* C8: a worker that is waiting in an exchange which a dead worker has not
\* posted stays in that exchange for ever (no timeout, no cancellation, no
\* partial result), and a worker has returned from a forward call only if
\* every worker posted every round of that call.
Dead == {"crashed", "raised", "ctor_error"}

StalledOn(v, w) ==
  /\ pc[v] \in Blocked
  /\ pc[w] \in Dead
  /\ Len(posted[w]) < Len(posted[v])

C8_SkipStallsAll ==
  /\ [](\A v, w \in Ranks :
          pc[v] = "returned" => Len(posted[w]) >= 3 * ncall[v])
  /\ [][\A v, w \in Ranks :
          StalledOn(v, w) => pc'[v] \in {pc[v], "crashed"}]_vars

C8_Witness ==
  \E v, w \in Ranks :
    /\ StalledOn(v, w)
    /\ pc[w] = "crashed" /\ pc[v] = "var"

\* C9 (as stated): a forward call posts exactly two blocking collectives.
PostsOfCall(w) ==
  Cardinality({k \in 1..Len(posted[w]) : posted[w][k].call = ncall[w]})

C9_TwoExchanges ==
  \A w \in Ranks : pc[w] = "returned" => PostsOfCall(w) = 2

\* C9 (amended): a forward call blocks at exactly three collectives, in this
\* order: the height exchange, the sum exchange, the squared-deviation
\* exchange; a worker waits in the k-th after posting exactly k of them.
KindsOfCall(w) ==
  SelectSeq([k \in 1..Len(posted[w]) |->
               IF posted[w][k].call = ncall[w] THEN posted[w][k].kind ELSE ""],
            LAMBDA kind : kind # "")

C9_ThreeExchanges ==
  \A w \in Ranks :
    /\ pc[w] = "height" => KindsOfCall(w) = <<"height">>
    /\ pc[w] = "mean" => KindsOfCall(w) = <<"height", "sum">>
    /\ pc[w] \in {"var", "returned"} => KindsOfCall(w) = <<"height", "sum", "var">>

C9_Witness == AllReturned /\ world_size >= 2 /\ \A w \in Ranks : ncall[w] >= 1

\* C10: the global height every worker obtains is the sum of all workers'
\* local heights, the same on every worker, also for unequal local heights.
C10_GlobalHeight ==
  \A w \in Ranks :
    height[w] # None => height[w] = Scalar(R(SeqSum(Heights)))

C10_Witness ==
  /\ UnequalHeights
  /\ \A w \in Ranks : height[w] # None /\ height[w] # Raised

\* C11: group isolation.  Of two runs of PatchGroupNorm.forward on global
\* tensors that differ only in values of channels of group g, the mean and the
\* variance of every other group g' # g are the same in both runs, for every
\* batch element, on every worker.
Moment(t, b, g) == Elem(t, (b - 1) * num_groups + g)

C11_GroupIsolation ==
  (twin.x # <<>> /\ twin.E # <<>>) =>
    \A w \in Ranks : \A b \in 1..x[w].shape[1] :
      \A g \in (1..num_groups) \ {twin.g} :
        /\ E[w] # None => Moment(E[w], b, g) = Moment(twin.E[w], b, g)
        /\ var[w] # None => Moment(var[w], b, g) = Moment(twin.var[w], b, g)

C11_Witness ==
  /\ twin.x # <<>> /\ twin.E # <<>>
  /\ AllReturned /\ UnequalHeights
  /\ Moment(E[1], 1, twin.g) # Moment(twin.E[1], 1, twin.g)
  /\ Moment(var[2], 1, twin.g) # Moment(twin.var[2], 1, twin.g)

\* C12: the tensor that forward returns on a worker has exactly the shape
\* [batch, channel, height_slice, width] of that worker's input shard; the
\* grouped 5-D layout of the intermediate values never reaches the output.
C12_ShapePreserved ==
  \A w \in Ranks :
    pc[w] = "returned" =>
      /\ out[w].shape = x[w].shape
      /\ Len(out[w].shape) = 4
      /\ Len(out[w].data) = Numel(x[w])

C12_Witness ==
  /\ IsGN /\ AllReturned /\ UnequalHeights
  /\ num_groups = 2 /\ num_channels = 4
  /\ GN_view(x[2], num_groups).shape = <<1, 2, 2, 2, 1>>
  /\ out[2].shape = <<1, 4, 2, 1>>

\* a call of PatchAdaGroupNorm.forward that returned
C12_AdaReturned == IsAda /\ AllReturned /\ UnequalHeights

\* C13: the partial sum of squared deviations a worker posts in round 2 is
\* taken about the global mean of round 1 (the sum of all workers' round-1
\* partial sums divided by the full element count), never about a mean of its
\* own shard; so a worker has posted its round-2 contribution only after every
\* worker posted its round-1 contribution of the same call.
GroupShape(w) == <<x[w].shape[1], num_groups>>

\* the element count of one group over the full tensor
FullCount == (x[1].shape[2] \div num_groups) * SeqSum(Heights) * x[1].shape[4]

\* the sum over the ranks of their k-th contributions, by (batch, group)
PostedTotal(w, k) ==
  SumDim0(Stack(List([r \in Ranks |-> Reshape(posted[r][k].val, GroupShape(w))],
                     world_size)))

\* sum over the shard t, by (batch, group), of (value - total/n)^2
SquaredDeviations(t, G, total, n) ==
  LET grp == Groups(t, G)
      dev == List([j \in 1..Numel(t) |->
                     (n * total.den * t.data[j] - total.data[grp[j]])
                       * (n * total.den * t.data[j] - total.data[grp[j]])],
                  Numel(t))
  IN  Tensor(<<t.shape[1], G>>, n * total.den * n * total.den, GroupSums(t, G, dev))

C13_GlobalMeanInRound2 ==
  \A w \in Ranks :
    pc[w] = "var" =>
      LET k == Len(posted[w])
      IN  /\ posted[w][k].kind = "var"
          /\ \A r \in Ranks :
                /\ Len(posted[r]) >= k - 1
                /\ posted[r][k - 1].kind = "sum"
                /\ posted[r][k - 1].call = posted[w][k].call
          /\ Reshape(E[w], GroupShape(w))
               = Div(PostedTotal(w, k - 1), Scalar(R(FullCount)))
          /\ Reshape(posted[w][k].val, GroupShape(w))
               = SquaredDeviations(x[w], num_groups, PostedTotal(w, k - 1), FullCount)

\* a worker has posted its round-2 contribution, another has not, and the mean
\* of the worker's own shard is not the global mean
C13_Witness ==
  /\ IsGN /\ world_size = 2 /\ Heights = <<2, 1>> /\ num_groups = 2
  /\ pc[1] = "var" /\ pc[2] = "mean"
  /\ Div(Reshape(posted[1][2].val, GroupShape(1)),
         nelements_local(x[1], num_groups, E[1])) # E[1]
  /\ \E o \in 1..Numel(posted[1][3].val) : posted[1][3].val.data[o] # 0

\* C14: agreement.  In a forward call all workers that are past the mean
\* exchange hold the same mean E for each (batch, group), all that are past
\* the variance exchange hold the same variance, and the normalizer
\* channels_per_group * global_height * width is the same on all workers.
Normalizer(w) == nelements(x[w], num_groups, height[w])

HasHeight(w) == height[w] # None /\ height[w] # Raised

C14_Agreement ==
  \A v, w \in Ranks :
    ncall[v] = ncall[w] =>
      /\ (E[v] # None /\ E[w] # None) => E[v] = E[w]
      /\ (var[v] # None /\ var[w] # None) => var[v] = var[w]
      /\ (HasHeight(v) /\ HasHeight(w)) => Normalizer(v) = Normalizer(w)

C14_Witness ==
  /\ IsGN /\ AllReturned /\ UnequalHeights
  /\ x[1].shape[1] = 2 /\ num_groups = 2
  /\ ncall[1] = 2 /\ ncall[2] = 2
  /\ E[1].shape = <<2, 2>> /\ var[2].shape = <<2, 2>>
  /\ Normalizer(1) = Scalar(R(2 * SeqSum(Heights)))

\* C15: the variance is the biased (population) estimator: the sum over all
\* workers of the squared deviations about the global mean, divided by the
\* element count of one group over the full tensor, never by that count less
\* one and never by the count of the worker's own shard; the mean is the sum
\* of the values divided by the same count.
LocalCount(w) == (x[w].shape[2] \div num_groups) * x[w].shape[3] * x[w].shape[4]

IsZero(t) == \A o \in 1..Numel(t) : t.data[o] = 0

C15_BiasedVariance ==
  \A w \in Ranks :
    pc[w] = "returned" =>
      LET k     == Len(posted[w])
          sums  == PostedTotal(w, k - 1)
          devs  == PostedTotal(w, k)
          varw  == Reshape(var[w], GroupShape(w))
      IN  /\ Reshape(E[w], GroupShape(w)) = Div(sums, Scalar(R(FullCount)))
          /\ varw = Div(devs, Scalar(R(FullCount)))
          /\ (FullCount > 1 /\ ~IsZero(devs)) =>
                varw # Div(devs, Scalar(R(FullCount - 1)))
          /\ (LocalCount(w) # FullCount /\ ~IsZero(devs)) =>
                varw # Div(devs, Scalar(R(LocalCount(w))))

C15_Witness ==
  /\ IsGN /\ AllReturned /\ UnequalHeights
  /\ num_groups = 1 /\ num_channels = 2
  /\ ~IsZero(PostedTotal(1, Len(posted[1])))
  /\ LocalCount(1) # FullCount /\ LocalCount(2) # LocalCount(1)

\* C16: in PatchGroupNorm.forward and in PatchAdaGroupNorm.forward alike, eps
\* is added to the variance before the square root is taken: every element
\* of a returned output is built from (x - E) / sqrt(var + eps), with E and
\* var those of the element's (batch, group).
Radicand(w, o) ==
  Elem(Add(Reshape(var[w], GroupShape(w)), Scalar(eps)),
       GroupOf(x[w], num_groups, o))

Deviation(w, o) ==
  Elem(Sub(Scalar(R(x[w].data[o])),
           Scalar(Elem(Reshape(E[w], GroupShape(w)), GroupOf(x[w], num_groups, o)))),
       1)

C16_EpsBeforeSqrt ==
  \A w \in Ranks :
    pc[w] = "returned" =>
      \A o \in 1..Numel(x[w]) :
        /\ out[w].data[o].rad = Radicand(w, o)
        /\ out[w].data[o].num = Deviation(w, o)

C16_Witness ==
  /\ IsGN /\ AllReturned /\ world_size = 2
  /\ num_groups = 2 /\ x[1].shape[1] = 2
  /\ \E o \in 1..Numel(x[1]) :
       /\ Radicand(1, o) # eps
       /\ Radicand(1, o) # Radicand(1, 1)
       /\ Deviation(1, o) # R(0)

\* the same in a call of PatchAdaGroupNorm.forward
C16_AdaWitness ==
  /\ IsAda /\ AllReturned /\ UnequalHeights
  /\ \E o \in 1..Numel(x[1]) : Radicand(1, o) # eps /\ Deviation(1, o) # R(0)

\* C17: a forward call reads the affine parameters (weight, bias) and never
\* changes them, nor its input shard, and nothing of a call outlives it: a
\* call repeated with the same shards on all workers returns the same output
\* as the call before it.
C17_ForwardFrame ==
  [][\A w \in Ranks :
       /\ pc[w] # "new" => (weight'[w] = weight[w] /\ bias'[w] = bias[w])
       /\ x'[w] = x[w]
       /\ (pc[w] = "var" /\ pc'[w] = "returned" /\ out[w] # None)
            => out'[w] = out[w]]_vars

\* a second call has returned on every worker
C17_Witness ==
  /\ IsGN /\ AllReturned /\ UnequalHeights
  /\ \A w \in Ranks : ncall[w] = 2 /\ Len(posted[w]) = 6
  /\ num_channels = 4
  /\ weight[1] = Filled(4, 1) /\ bias[2] = Filled(4, 0)
  /\ out[1].data[1].num # R(0)

\* C18: over any sequence of forward calls every worker posts its collectives
\* in one fixed order (height, sum, squared deviations), so the k-th collective
\* of every worker is the same round of the same call; an exchange hands every
\* worker one contribution per worker, of that round of that call, in rank
\* order: rounds and calls are never mixed in a gathered list.
Rounds == <<"height", "sum", "var">>

BufferShape(w, kind) == IF kind = "height" THEN <<1>> ELSE GroupShape(w)

C18_LockStepOrder ==
  /\ \A w \in Ranks : \A k \in 1..Len(posted[w]) :
       /\ posted[w][k].kind = Rounds[((k - 1) % 3) + 1]
       /\ posted[w][k].call = ((k - 1) \div 3) + 1
  /\ \A w \in Ranks :
       (pc[w] \in Blocked /\ Arrived(Len(posted[w]))) =>
         LET k   == Len(posted[w])
             got == Gathered(w, BufferShape(w, posted[w][k].kind))
         IN  /\ posted[w][k].kind = IF pc[w] = "mean" THEN "sum" ELSE pc[w]
             /\ posted[w][k].call = ncall[w]
             /\ Len(got) = world_size
             /\ \A r \in Ranks :
                   /\ posted[r][k].kind = posted[w][k].kind
                   /\ posted[r][k].call = posted[w][k].call
                   /\ got[r] = Reshape(posted[r][k].val,
                                       BufferShape(w, posted[w][k].kind))

\* in its second call a worker is about to receive the partial sums, which
\* differ from rank to rank, while another worker is a round ahead
C18_Witness ==
  /\ world_size = 2 /\ UnequalHeights
  /\ pc[1] = "mean" /\ Len(posted[1]) = 5
  /\ pc[2] = "var" /\ Len(posted[2]) = 6
  /\ posted[1][5].val # posted[2][5].val

====
